---- MODULE Spec2Model ----
(***************************************************************************)
(* Batch image-editing workflow of App.tsx: the task collection, the       *)
(* single-item processor processOne, the worker pool of startWorkflow and  *)
(* the user actions that interleave with them.                             *)
(*                                                                         *)
(* One step of the model is one browser task: an event handler or a        *)
(* promise continuation together with every microtask it triggers, up to   *)
(* the next real suspension (image decoding, the network call, the         *)
(* key-selection dialog).  React renders between tasks, so every handler   *)
(* closes over the state of the step in which the user fired it.           *)
(***************************************************************************)
EXTENDS Integers, Sequences, FiniteSets, TLC

\* ---------------------------------------------------------------- bounds
MaxImages == 3           \* image files ever loaded (ids are never reused)
MaxImagesKeyDialog == 2  \* the same, in the runs that use the key dialog
MaxRuns == 2             \* batch runs outstanding at the same time
MaxSingles == 1          \* single-item runs outstanding at the same time
MaxConcurrency == 2      \* largest concurrency option the user picks
MaxImagesPrompt == 2     \* images loaded in the runs that edit the prompt

\* ------------------------------------------------------------- constants
\* A text of the program (a message, a model name, a URL) is a sequence of
\* tokens, so that includes() and template strings are computed on it; the
\* empty sequence is the empty string, and NoValue is JavaScript's undefined.
NoValue == <<"undefined">>
CONCURRENCY_OPTIONS == {1, 2, 4, 8}
FLASH_MODEL == <<"gemini", "2.5", "flash", "image">>
PRO_MODEL == <<"gemini", "3", "pro", "image", "preview">>
MODEL_OPTIONS == {FLASH_MODEL, PRO_MODEL}
DEFAULT_CUSTOM_URL == <<"https://ark", "/api/v3/images/generations">>
DEFAULT_CUSTOM_MODEL == <<"doubao", "seedream">>
DEFAULT_MESSAGE == <<"processing", "failed">>
REMEDIATION_MESSAGE == <<"permission", "denied:", "switch", "to", "Flash">>

Ids == 1..MaxImages
Concurrencies == {c \in CONCURRENCY_OPTIONS : c <= MaxConcurrency}
\* prompts as character sequences: empty, whitespace only, and real
\* instructions
Prompts == {<<>>, <<" ", "\n">>, <<" ", "e">>, <<"e">>}
\* what the adapter call (or the image decoding) of one attempt settles with:
\* a result reference, or an error with its raw message (empty when the thrown
\* value carries no message)
Success(values) == [ok : {TRUE}, value : values]
Failure(messages) == [ok : {FALSE}, value : messages]
Outcomes == Success({<<"url1">>}) \cup Failure({<<>>})

VARIABLES images, config, isProcessing, activeCount, progress,
          created, runs, singleCheck, singleFlight, isExporting, invocation

vars == <<images, config, isProcessing, activeCount, progress,
          created, runs, singleCheck, singleFlight, isExporting, invocation>>

\* --------------------------------------------------------------- helpers
Min(a, b) == IF a < b THEN a ELSE b

RECURSIVE Sum(_, _)
Sum(f, S) == IF S = {} THEN 0
             ELSE LET x == CHOOSE y \in S : TRUE IN f[x] + Sum(f, S \ {x})

IsSpace(c) == c \in {" ", "\t", "\n"}

\* a trim that returns its argument
TrimNothing(s) == s

RECURSIVE Trim(_)
Trim(s) == IF s = <<>> THEN s
           ELSE IF IsSpace(Head(s)) THEN Trim(Tail(s))
           ELSE IF IsSpace(s[Len(s)]) THEN Trim(SubSeq(s, 1, Len(s) - 1))
           ELSE s

Remove(seq, i) == SubSeq(seq, 1, i - 1) \o SubSeq(seq, i + 1, Len(seq))

NewImage(id) ==
    [id |-> id, status |-> "pending", editedUrl |-> NoValue,
     error |-> NoValue, selected |-> TRUE]

selectedCount == Cardinality({i \in 1..Len(images) : images[i].selected})
allSelected == Len(images) > 0 /\ selectedCount = Len(images)

\* text.includes(needle)
Includes(text, needle) ==
    \E k \in 0..(Len(text) - Len(needle)) :
        SubSeq(text, k + 1, k + Len(needle)) = needle

\* checkApiKeyRequirement really suspends only when it talks to the host
KeyCheckSuspends(cfg) ==
    cfg.provider = "gemini" /\ Includes(cfg.model, <<"gemini", "3", "pro">>)

\* ------------------------------------------------------------ processOne
\* an entry transform that rebuilds the task instead of spreading it
MarkProcessingDeselecting(prev, id) ==
    [k \in 1..Len(prev) |->
        LET img == prev[k]
        IN IF img.id = id
           THEN [img EXCEPT !.status = "processing", !.error = NoValue,
                            !.selected = FALSE]
           ELSE img]

\* entry: setActiveCount(+1) and the 'processing' transform
MarkProcessing(prev, id) ==
    [k \in 1..Len(prev) |->
        LET img == prev[k]
        IN IF img.id = id
           THEN [img EXCEPT !.status = "processing", !.error = NoValue]
           ELSE img]

NormalizeMessage(raw) ==
    LET message == IF raw \in {NoValue, <<>>} THEN DEFAULT_MESSAGE ELSE raw
    IN IF message = <<"PERMISSION_DENIED">> THEN REMEDIATION_MESSAGE ELSE message

\* a settle transform that writes the other tasks back without their results
MarkSettledClobbering(prev, id, o) ==
    [k \in 1..Len(prev) |->
        LET img == prev[k]
        IN IF img.id = id
           THEN IF o.ok
                THEN [img EXCEPT !.status = "completed", !.editedUrl = o.value]
                ELSE [img EXCEPT !.status = "error",
                                 !.error = NormalizeMessage(o.value)]
           ELSE [img EXCEPT !.editedUrl = NoValue, !.error = NoValue]]

\* try/catch: the 'completed' or the 'error' transform
MarkSettled(prev, id, o) ==
    [k \in 1..Len(prev) |->
        LET img == prev[k]
        IN IF img.id = id
           THEN IF o.ok
                THEN [img EXCEPT !.status = "completed", !.editedUrl = o.value]
                ELSE [img EXCEPT !.status = "error",
                                 !.error = NormalizeMessage(o.value)]
           ELSE img]

\* the same with a catch clause that lets the failure through
ProcessOneResolvesOnSuccess(o) == o.ok

\* try { ... } catch (error: any) { ... }: the catch clause takes every thrown
\* value, so the promise processOne returns resolves whatever the outcome
ProcessOneResolves(o) == TRUE

\* finally: setProgress(p => ({...p, current: p.current + 1}))
ProgressTick(p) == [p EXCEPT !.current = p.current + 1]

\* ------------------------------------------------------------------ Init
\* no editImage invocation is being followed
NoInvocation == [pc |-> "idle"]

Init ==
    /\ images = <<>>
    /\ config = [prompt |-> <<"e">>, provider |-> "gemini",
                 model |-> FLASH_MODEL, imageSize |-> <<"1K">>,
                 customUrl |-> DEFAULT_CUSTOM_URL, customApiKey |-> <<>>,
                 customModel |-> DEFAULT_CUSTOM_MODEL, concurrency |-> 1]
    /\ isProcessing = FALSE
    /\ activeCount = 0
    /\ progress = [current |-> 0, total |-> 0]
    /\ created = 0
    /\ runs = <<>>
    /\ singleCheck = [id \in Ids |-> 0]
    /\ singleFlight = [id \in Ids |-> 0]
    /\ isExporting = FALSE
    /\ invocation = NoInvocation

\* ---------------------------------------------------------- user actions
\* the folder input: one pending, selected task per accepted image file
handleFolderUpload(limit) ==
    \E k \in 1..(limit - created) :
        /\ images' = images \o [i \in 1..k |-> NewImage(created + i)]
        /\ created' = created + k
        /\ UNCHANGED <<config, isProcessing, activeCount, progress,
                       runs, singleCheck, singleFlight, isExporting, invocation>>

\* a click on a card; the card ignores it while its task is processing
toggleSelect ==
    \E i \in 1..Len(images) :
        /\ images[i].status # "processing"
        /\ images' = [k \in 1..Len(images) |->
               LET img == images[k]
               IN IF img.id = images[i].id
                  THEN [img EXCEPT !.selected = ~img.selected] ELSE img]
        /\ UNCHANGED <<config, isProcessing, activeCount, progress,
                       created, runs, singleCheck, singleFlight, isExporting, invocation>>

\* the select-all / deselect-all button, rendered when the queue is not empty
selectAll ==
    /\ Len(images) > 0
    /\ LET selected == ~allSelected
       IN images' = [k \in 1..Len(images) |->
               [images[k] EXCEPT !.selected = selected]]
    /\ UNCHANGED <<config, isProcessing, activeCount, progress,
                   created, runs, singleCheck, singleFlight, isExporting, invocation>>

\* the settings panel
setPrompt ==
    \E p \in Prompts :
        /\ p # config.prompt
        /\ config' = [config EXCEPT !.prompt = p]
        /\ UNCHANGED <<images, isProcessing, activeCount, progress,
                       created, runs, singleCheck, singleFlight, isExporting, invocation>>

setConcurrency ==
    \E c \in Concurrencies :
        /\ c # config.concurrency
        /\ config' = [config EXCEPT !.concurrency = c]
        /\ UNCHANGED <<images, isProcessing, activeCount, progress,
                       created, runs, singleCheck, singleFlight, isExporting, invocation>>

setModel ==
    \E m \in MODEL_OPTIONS :
        /\ config.provider = "gemini"
        /\ m # config.model
        /\ config' = [config EXCEPT !.model = m]
        /\ UNCHANGED <<images, isProcessing, activeCount, progress,
                       created, runs, singleCheck, singleFlight, isExporting, invocation>>

\* the clear-queue button, rendered when the queue is not empty
clearAll ==
    /\ Len(images) > 0
    /\ ~isProcessing
    /\ images' = <<>>
    /\ progress' = [current |-> 0, total |-> 0]
    /\ activeCount' = 0
    /\ UNCHANGED <<config, isProcessing, created, runs,
                   singleCheck, singleFlight, isExporting, invocation>>

\* ---------------------------------------------------------------- export
completedCount ==
    Cardinality({i \in 1..Len(images) : images[i].status = "completed"})

\* the export button, rendered when some task is completed and disabled while
\* an export or a batch run is going on; the handler returns at once when no
\* completed task has a result, and otherwise suspends on the first fetch
downloadAllAsZip ==
    /\ completedCount > 0
    /\ ~isExporting
    /\ ~isProcessing
    /\ isExporting' =
           (\E i \in 1..Len(images) :
               /\ images[i].status = "completed"
               /\ images[i].editedUrl \notin {NoValue, <<>>})
    /\ UNCHANGED <<images, config, isProcessing, activeCount, progress,
                   created, runs, singleCheck, singleFlight, invocation>>

\* the archive is handed to the browser, or building it failed: finally
exportSettle ==
    /\ isExporting
    /\ isExporting' = FALSE
    /\ UNCHANGED <<images, config, isProcessing, activeCount, progress,
                   created, runs, singleCheck, singleFlight, invocation>>

\* ------------------------------------------------------- single-item run
Outstanding == Sum(singleCheck, Ids) + Sum(singleFlight, Ids)

\* after the credential check: setProgress({0, 1}); processOne(image)
SingleDispatch(id) ==
    /\ progress' = [current |-> 0, total |-> 1]
    /\ activeCount' = activeCount + 1
    /\ images' = MarkProcessing(images, id)
    /\ singleFlight' = [singleFlight EXCEPT ![id] = @ + 1]

\* the execute / retry / regenerate button of a card that is not processing
startSingleWorkflow ==
    \E i \in 1..Len(images) :
        LET id == images[i].id IN
        /\ images[i].status # "processing"
        /\ Outstanding < MaxSingles
        /\ IF Trim(config.prompt) = <<>>
           THEN UNCHANGED <<images, activeCount, progress, singleCheck, singleFlight>>
           ELSE IF KeyCheckSuspends(config)
           THEN /\ singleCheck' = [singleCheck EXCEPT ![id] = @ + 1]
                /\ UNCHANGED <<images, activeCount, progress, singleFlight>>
           ELSE /\ SingleDispatch(id)
                /\ UNCHANGED singleCheck
        /\ UNCHANGED <<config, isProcessing, created, runs, isExporting, invocation>>

\* the credential check of a single-item run returns
singleCheckDone ==
    \E id \in Ids :
        /\ singleCheck[id] > 0
        /\ singleCheck' = [singleCheck EXCEPT ![id] = @ - 1]
        /\ SingleDispatch(id)
        /\ UNCHANGED <<config, isProcessing, created, runs, isExporting, invocation>>

\* the attempt of a single-item run settles
singleSettle(outcomes) ==
    \E id \in Ids, o \in outcomes :
        /\ singleFlight[id] > 0
        /\ singleFlight' = [singleFlight EXCEPT ![id] = @ - 1]
        /\ images' = MarkSettled(images, id, o)
        /\ activeCount' = activeCount - 1
        /\ progress' = ProgressTick(progress)
        /\ UNCHANGED <<config, isProcessing, created, runs, singleCheck, isExporting, invocation>>

\* ------------------------------------------------------------- batch run
\* const maxConcurrency = config.concurrency || 1
MaxConcurrencyOf(cfg) == IF cfg.concurrency = 0 THEN 1 ELSE cfg.concurrency

IsTarget(img) ==
    img.selected /\ img.status \in {"pending", "error", "completed"}

\* a filter that seeds the queue from the end of the collection
TargetsOfReversed(snapshot) ==
    LET t == SelectSeq(snapshot, IsTarget)
    IN [i \in 1..Len(t) |-> t[Len(t) + 1 - i].id]

TargetsOf(snapshot) ==
    LET t == SelectSeq(snapshot, IsTarget) IN [i \in 1..Len(t) |-> t[i].id]

\* a shift that drops two targets when it can
ShiftTwo(queue) == IF Len(queue) > 1 THEN Tail(Tail(queue)) ELSE Tail(queue)

\* queue.shift() leaves the rest of the queue
Shift(queue) == Tail(queue)

\* the for loop without its concurrency limit: one worker per target it finds
RECURSIVE SpawnLoopUnbounded(_, _, _, _)
SpawnLoopUnbounded(i, maxConcurrency, queue, workers) ==
    IF i < Len(queue)
    THEN SpawnLoopUnbounded(i + 1, maxConcurrency, Tail(queue),
                            Append(workers, Head(queue)))
    ELSE [queue |-> queue, workers |-> workers]

\* the for loop that starts the workers: each spawnWorker() call runs up to its
\* first await, so it has already shifted its first target when the loop
\* condition reads queue.length again
RECURSIVE SpawnLoop(_, _, _, _)
SpawnLoop(i, maxConcurrency, queue, workers) ==
    IF i < Min(maxConcurrency, Len(queue))
    THEN SpawnLoop(i + 1, maxConcurrency, Shift(queue), Append(workers, Head(queue)))
    ELSE [queue |-> queue, workers |-> workers]

RECURSIVE MarkAll(_, _)
MarkAll(prev, ids) ==
    IF ids = <<>> THEN prev ELSE MarkAll(MarkProcessing(prev, Head(ids)), Tail(ids))

\* startWorkflow after its credential check.  `targets` is the filter of line
\* 165 applied to the collection of the render in which the start button was
\* clicked: the closure's `images` never changes, so the filter gives the same
\* list whenever it is evaluated, and the run record carries the list
Begin(targets, maxConcurrency, r) ==
    LET pool == SpawnLoop(0, maxConcurrency, targets, <<>>)
        run == [pc |-> "running", maxConcurrency |-> maxConcurrency,
                targets |-> targets, queue |-> pool.queue,
                workers |-> pool.workers, dispatched |-> pool.workers]
    IN IF Len(targets) = 0
       THEN /\ runs' = Remove(runs, r)
            /\ UNCHANGED <<images, isProcessing, activeCount, progress>>
       ELSE /\ isProcessing' = TRUE
            /\ progress' = [current |-> 0, total |-> Len(targets)]
            /\ activeCount' = activeCount + Len(pool.workers)
            /\ images' = MarkAll(images, pool.workers)
            /\ runs' = IF r > Len(runs) THEN Append(runs, run)
                        ELSE [runs EXCEPT ![r] = run]

\* the start button
startWorkflow ==
    /\ ~isProcessing
    /\ Len(images) > 0
    /\ selectedCount > 0
    /\ Len(runs) < MaxRuns
    /\ IF Trim(config.prompt) = <<>>
       THEN UNCHANGED <<images, isProcessing, activeCount, progress, runs>>
       ELSE IF KeyCheckSuspends(config)
       THEN /\ runs' = Append(runs, [pc |-> "check",
                                      maxConcurrency |-> MaxConcurrencyOf(config),
                                      targets |-> TargetsOf(images)])
            /\ UNCHANGED <<images, isProcessing, activeCount, progress>>
       ELSE Begin(TargetsOf(images), MaxConcurrencyOf(config), Len(runs) + 1)
    /\ UNCHANGED <<config, created, singleCheck, singleFlight, isExporting, invocation>>

\* the credential check of a batch run returns
batchCheckDone ==
    \E r \in 1..Len(runs) :
        /\ runs[r].pc = "check"
        /\ Begin(runs[r].targets, runs[r].maxConcurrency, r)
        /\ UNCHANGED <<config, created, singleCheck, singleFlight, isExporting, invocation>>

\* a worker loop that does not return when it finds the queue empty
WorkerStepHangs(run, w) ==
    IF Len(run.queue) > 0
    THEN [run EXCEPT !.queue = Shift(@),
                     !.workers[w] = Head(run.queue),
                     !.dispatched = Append(@, Head(run.queue))]
    ELSE [run EXCEPT !.workers[w] = -1]

\* spawnWorker after `await processOne(target)` returned: the while loop
WorkerStep(run, w) ==
    IF Len(run.queue) > 0
    THEN [run EXCEPT !.queue = Shift(@),
                     !.workers[w] = Head(run.queue),
                     !.dispatched = Append(@, Head(run.queue))]
    ELSE [run EXCEPT !.workers[w] = 0]

\* a worker whose `await processOne(target)` rejected ends rejected, and
\* Promise.all(workers) never resolves
WorkerRejected(run, w) == [run EXCEPT !.workers[w] = -1]

\* a join that resolves with the first worker that returns
PoolJoinedAny(run) == \E w \in 1..Len(run.workers) : run.workers[w] = 0

\* Promise.all(workers) resolves: every worker has returned
PoolJoined(run) == \A w \in 1..Len(run.workers) : run.workers[w] = 0

\* the attempt of worker w of run r settles; the worker takes the next target
\* or returns, and the run ends when the last worker has returned
batchSettle(outcomes) ==
    \E r \in 1..Len(runs) :
        /\ runs[r].pc = "running"
        /\ \E w \in 1..Len(runs[r].workers), o \in outcomes :
            /\ runs[r].workers[w] > 0
            /\ LET settled == MarkSettled(images, runs[r].workers[w], o)
                   run == IF ProcessOneResolves(o) THEN WorkerStep(runs[r], w)
                          ELSE WorkerRejected(runs[r], w)
                   next == run.workers[w]
               IN /\ images' = IF next > 0 THEN MarkProcessing(settled, next)
                                ELSE settled
                  /\ activeCount' = IF next > 0 THEN activeCount ELSE activeCount - 1
                  /\ progress' = ProgressTick(progress)
                  /\ runs' = IF PoolJoined(run)
                              THEN Remove(runs, r)
                              ELSE [runs EXCEPT ![r] = run]
                  /\ isProcessing' = IF PoolJoined(run) THEN FALSE ELSE isProcessing
        /\ UNCHANGED <<config, created, singleCheck, singleFlight, isExporting, invocation>>

\* ------------------------------------------------- editImage (the adapters)
MISSING_KEY_MESSAGE == <<"API", "Key", "missing", "in", "environment">>
INCOMPLETE_CONFIG_MESSAGE == <<"custom", "API", "configuration", "incomplete">>
TEXT_ONLY_PREFIX == <<"model", "returned", "text", "instead", "of", "image:">>
NO_IMAGE_MESSAGE == <<"model", "returned", "no", "image", "data">>
REQUEST_FAILED_PREFIX == <<"API", "request", "failed:">>
NO_URL_MESSAGE == <<"API", "returned", "no", "valid", "image", "link">>
FAILED_TO_FETCH == <<"Failed", "to", "fetch">>
NETWORK_MESSAGE == <<"network", "request", "failed", "(Failed to fetch)">>
DECODE_MESSAGE == NoValue

\* a JavaScript value is falsy: undefined or the empty string
Falsy(text) == text \in {NoValue, <<>>}

Thrown(message) == [ok |-> FALSE, value |-> message]
Returned(value) == [ok |-> TRUE, value |-> value]

\* an imageConfig that carries the resolution for every model
ImageConfigAlwaysSized(modelName, imageSize) ==
    [aspectRatio |-> <<"1:1">>, imageSize |-> imageSize]

\* const imageConfig = { aspectRatio: "1:1" }, plus imageSize for the Pro model
ImageConfig(modelName, imageSize) ==
    IF modelName = PRO_MODEL
    THEN [aspectRatio |-> <<"1:1">>, imageSize |-> imageSize]
    ELSE [aspectRatio |-> <<"1:1">>]

\* genConfig of handleGemini: the request handed to generateContent
GenConfig(modelName, imageSize) ==
    IF Includes(modelName, <<"image">>)
    THEN [model |-> modelName, contents |-> "parts",
          config |-> [imageConfig |-> ImageConfig(modelName, imageSize)]]
    ELSE [model |-> modelName, contents |-> "parts"]

\* the fetch of handleCustomApi
CustomRequest(cfg) ==
    [url |-> cfg.customUrl,
     authorization |-> IF Len(cfg.customApiKey) > 0
                          /\ Head(cfg.customApiKey) = "Bearer"
                       THEN cfg.customApiKey
                       ELSE <<"Bearer">> \o cfg.customApiKey,
     body |-> [model |-> cfg.customModel, prompt |-> cfg.prompt,
               size |-> cfg.imageSize, watermark |-> FALSE]]

\* `data:${returnedMimeType};base64,${part.inlineData.data}`
DataUri(inlineData) ==
    LET returnedMimeType == IF Falsy(inlineData.mimeType) THEN <<"image/png">>
                            ELSE inlineData.mimeType
    IN <<"data:">> \o returnedMimeType \o <<";base64,">> \o inlineData.data

HasInlineData(part) == "inlineData" \in DOMAIN part
HasText(part) == "text" \in DOMAIN part /\ ~Falsy(part.text)

\* index of the first part that satisfies the test of the loop (or of find), 0
\* when there is none
FirstInline(parts) ==
    IF \E k \in 1..Len(parts) : HasInlineData(parts[k])
    THEN CHOOSE k \in 1..Len(parts) :
             /\ HasInlineData(parts[k])
             /\ \A j \in 1..(k - 1) : ~HasInlineData(parts[j])
    ELSE 0
FirstText(parts) ==
    IF \E k \in 1..Len(parts) : HasText(parts[k])
    THEN CHOOSE k \in 1..Len(parts) :
             /\ HasText(parts[k])
             /\ \A j \in 1..(k - 1) : ~HasText(parts[j])
    ELSE 0

\* the body of the try block of handleGemini after generateContent returned
ScanParts(parts) ==
    IF FirstInline(parts) > 0
    THEN Returned(DataUri(parts[FirstInline(parts)].inlineData))
    ELSE IF FirstText(parts) > 0
    THEN Thrown(TEXT_ONLY_PREFIX \o parts[FirstText(parts)].text)
    ELSE Thrown(NO_IMAGE_MESSAGE)

\* the catch clause of handleGemini
GeminiCatch(message) ==
    IF Includes(message, <<"403">>) \/ Includes(message, <<"PERMISSION_DENIED">>)
    THEN <<"PERMISSION_DENIED">>
    ELSE message

\* handleGemini from the moment generateContent settles
HandleGeminiResponse(response) ==
    LET tried == IF response.kind = "throws" THEN Thrown(response.message)
                 ELSE ScanParts(response.parts)
    IN IF tried.ok THEN tried ELSE Thrown(GeminiCatch(tried.value))

\* data.data?.[0]?.url and data.output?.[0]?.url
UrlOf(data, field) ==
    IF field \in DOMAIN data /\ Len(data[field]) > 0
       /\ "url" \in DOMAIN data[field][1]
    THEN data[field][1].url
    ELSE NoValue

\* errorData.error?.message, errorData being {} when the body does not parse
ErrorMessageOf(response) ==
    IF response.parseable /\ "error" \in DOMAIN response.body
       /\ "message" \in DOMAIN response.body.error
    THEN response.body.error.message
    ELSE NoValue

\* the body of the try block of handleCustomApi after fetch returned
ReadCustomResponse(response) ==
    IF ~response.ok
    THEN Thrown(IF Falsy(ErrorMessageOf(response))
                THEN REQUEST_FAILED_PREFIX \o response.status \o response.statusText
                ELSE ErrorMessageOf(response))
    ELSE LET imageUrl == IF Falsy(UrlOf(response.body, "data"))
                         THEN UrlOf(response.body, "output")
                         ELSE UrlOf(response.body, "data")
         IN IF Falsy(imageUrl) THEN Thrown(NO_URL_MESSAGE) ELSE Returned(imageUrl)

\* the catch clause of handleCustomApi
CustomCatch(message) ==
    IF message = FAILED_TO_FETCH THEN NETWORK_MESSAGE ELSE message

\* handleCustomApi from the moment fetch settles
HandleCustomResponse(response) ==
    LET tried == IF response.kind = "throws" THEN Thrown(response.message)
                 ELSE ReadCustomResponse(response)
    IN IF tried.ok THEN tried ELSE Thrown(CustomCatch(tried.value))

\* a check that looks at the endpoint only
CustomConfigHasUrl(cfg) == ~Falsy(cfg.customUrl)

\* !config.customUrl || !config.customApiKey || !config.customModel
CustomConfigComplete(cfg) ==
    ~Falsy(cfg.customUrl) /\ ~Falsy(cfg.customApiKey) /\ ~Falsy(cfg.customModel)

\* the checks editImage makes before it builds a request
ConfigError(cfg, apiKey) ==
    IF cfg.provider = "gemini"
    THEN IF Falsy(apiKey) THEN MISSING_KEY_MESSAGE ELSE NoValue
    ELSE IF CustomConfigComplete(cfg) THEN NoValue ELSE INCOMPLETE_CONFIG_MESSAGE

RequestOf(cfg) ==
    IF cfg.provider = "gemini" THEN GenConfig(cfg.model, cfg.imageSize)
    ELSE CustomRequest(cfg)

\* an outbound call that is issued a second time
SendTwice(requests, request) == Append(Append(requests, request), request)

\* ai.models.generateContent(genConfig) / fetch(config.customUrl, ...)
Send(requests, request) == Append(requests, request)

\* ---- what the invocation meets: environment, configurations, responses
MaxParts == 2            \* parts in a response of the native backend

NON_IMAGE_MODEL == <<"gemini", "2.5", "flash">>
\* editImage takes any model name; the settings panel offers MODEL_OPTIONS
AdapterModels == MODEL_OPTIONS \cup {NON_IMAGE_MODEL}
ApiKeys == {NoValue, <<"key">>}

AdapterConfigs ==
    [prompt : {<<"e">>}, provider : {"gemini"}, model : AdapterModels,
     imageSize : {<<"1K">>, <<"2K">>}, customUrl : {DEFAULT_CUSTOM_URL},
     customApiKey : {<<>>}, customModel : {DEFAULT_CUSTOM_MODEL},
     concurrency : {1}]
    \cup
    [prompt : {<<"e">>}, provider : {"custom"}, model : {FLASH_MODEL},
     imageSize : {<<"2K">>}, customUrl : {<<>>, DEFAULT_CUSTOM_URL},
     customApiKey : {<<>>, <<"key">>}, customModel : {<<>>, DEFAULT_CUSTOM_MODEL},
     concurrency : {1}]

Parts ==
    { [inlineData |-> [mimeType |-> <<"image/jpeg">>, data |-> <<"d1">>]],
      [inlineData |-> [mimeType |-> NoValue, data |-> <<"d2">>]],
      [text |-> <<"sorry">>],
      [text |-> <<"see", "page", "403">>],
      [thought |-> TRUE] }

PartLists ==
    UNION {[1..n -> Parts] : n \in 0..MaxParts}

GeminiResponses ==
    [kind : {"parts"}, parts : PartLists]
    \cup [kind : {"throws"},
          message : {<<"403", "Forbidden">>, <<"PERMISSION_DENIED", "key">>,
                     <<"500", "Internal">>, FAILED_TO_FETCH, NoValue}]

CustomBodies ==
    { [data |-> <<[url |-> <<"u1">>]>>],
      [output |-> <<[url |-> <<"u2">>]>>],
      [data |-> <<>>, output |-> <<[url |-> <<"u2">>]>>],
      [data |-> <<[b64_json |-> <<"d1">>]>>],
      [id |-> <<"x">>] }

ErrorBodies ==
    { [error |-> [message |-> <<"bad", "key">>]],
      [error |-> [message |-> <<"PERMISSION_DENIED">>]],
      [error |-> [message |-> FAILED_TO_FETCH]],
      [error |-> [code |-> <<"401">>]],
      [id |-> <<"x">>] }

CustomResponses ==
    [kind : {"http"}, ok : {TRUE}, status : {<<"200">>}, statusText : {<<"OK">>},
     parseable : {TRUE}, body : CustomBodies]
    \cup [kind : {"http"}, ok : {FALSE}, status : {<<"401">>},
          statusText : {<<"Unauthorized">>}, parseable : BOOLEAN,
          body : ErrorBodies]
    \cup [kind : {"throws"}, message : {FAILED_TO_FETCH, <<"aborted">>}]

ResponsesFor(cfg) ==
    IF cfg.provider = "gemini" THEN GeminiResponses ELSE CustomResponses

NoResponse == [kind |-> "none"]

\* processOne after its attempt settled: the catch / success transform and
\* the finally block
SettleSingle(id, o) ==
    /\ singleFlight' = [singleFlight EXCEPT ![id] = @ - 1]
    /\ images' = MarkSettled(images, id, o)
    /\ activeCount' = activeCount - 1
    /\ progress' = ProgressTick(progress)

\* fileToBase64 settles; when the image decoded, editImage runs up to its
\* first await: it throws on a configuration error (and processOne settles in
\* the same task), or it issues its request
editImageCall ==
    \E id \in Ids, decoded \in BOOLEAN,
       apiKey \in (IF config.provider = "gemini" THEN ApiKeys ELSE {NoValue}) :
        /\ singleFlight[id] > 0
        /\ invocation.pc # "awaiting"
        /\ LET error == IF decoded THEN ConfigError(config, apiKey)
                        ELSE DECODE_MESSAGE
               started == [pc |-> "awaiting", id |-> id, called |-> decoded,
                           apiKey |-> apiKey, requests |-> <<>>,
                           response |-> NoResponse, result |-> Thrown(error)]
           IN IF ~decoded \/ error # NoValue
              THEN /\ invocation' = [started EXCEPT !.pc = "done"]
                   /\ SettleSingle(id, Thrown(error))
              ELSE /\ invocation' =
                          [started EXCEPT !.requests = Send(@, RequestOf(config))]
                   /\ UNCHANGED <<images, activeCount, progress, singleFlight>>
        /\ UNCHANGED <<config, isProcessing, created, runs, singleCheck,
                       isExporting>>

\* generateContent / fetch (and the reading of the body) settles: the adapter
\* classifies the response and processOne settles
editImageReturn ==
    /\ invocation.pc = "awaiting"
    /\ \E response \in ResponsesFor(config) :
           LET result == IF config.provider = "gemini"
                         THEN HandleGeminiResponse(response)
                         ELSE HandleCustomResponse(response)
           IN /\ invocation' = [invocation EXCEPT !.pc = "done",
                                                  !.response = response,
                                                  !.result = result]
              /\ SettleSingle(invocation.id, result)
    /\ UNCHANGED <<config, isProcessing, created, runs, singleCheck,
                   isExporting>>

\* ---------------------------------------------------------------- claims
Terminal == {"completed", "error"}
Running == {r \in 1..Len(runs) : runs[r].pc = "running"}

\* attempts (processOne invocations) in flight on task id
InFlightIn(rs, flights, id) ==
    flights[id] +
    Cardinality({rw \in (1..Len(rs)) \X (1..MaxImages) :
        /\ rs[rw[1]].pc = "running"
        /\ rw[2] <= Len(rs[rw[1]].workers)
        /\ rs[rw[1]].workers[rw[2]] = id})
InFlight(id) == InFlightIn(runs, singleFlight, id)
TargetSet(run) == {run.targets[k] : k \in 1..Len(run.targets)}
InFlightOf(run) == Cardinality({w \in 1..Len(run.workers) : run.workers[w] > 0})
ProcessingCount ==
    Cardinality({i \in 1..Len(images) : images[i].status = "processing"})

\* this step ends run r: its Promise.all resolved and it cleared the busy flag
Completes(r) ==
    /\ runs[r].pc = "running"
    /\ runs' = Remove(runs, r)
    /\ ~isProcessing'

\* in this step a batch run hands task id to processOne: as the first target
\* of a worker it spawns, or as the next target of a worker whose await returned
BatchDispatched(id) ==
    \/ \E r \in 1..Len(runs') :
        /\ runs'[r].pc = "running"
        /\ (r > Len(runs) \/ runs[r].pc = "check")
        /\ \E w \in 1..Len(runs'[r].workers) : runs'[r].workers[w] = id
    \/ \E r \in 1..Len(runs) :
        /\ Len(runs') = Len(runs)
        /\ runs[r].pc = "running"
        /\ runs'[r].pc = "running"
        /\ Len(runs'[r].dispatched) = Len(runs[r].dispatched) + 1
        /\ runs'[r].dispatched[Len(runs'[r].dispatched)] = id

\* C1: in every reachable state, a task has an editedUrl if and only if its
\* status is 'completed'.
C1_EditedIffCompleted ==
    \A i \in 1..Len(images) :
        (images[i].editedUrl # NoValue) <=> (images[i].status = "completed")

\* C2: in every reachable state, a task has an error if and only if its status
\* is 'error'.
C2_ErrorIffErrorStatus ==
    \A i \in 1..Len(images) :
        (images[i].error # NoValue) <=> (images[i].status = "error")

\* C3: in the step that completes a batch run, progress.current and
\* progress.total both equal the number of targets of that run.
C3_ProgressAtCompletion ==
    [][\A r \in 1..Len(runs) :
         Completes(r) =>
            /\ progress'.current = Len(runs[r].targets)
            /\ progress'.total = Len(runs[r].targets)]_vars

\* C4 as claimed: in the step that completes a batch run, every target of the
\* run has status 'completed' or 'error'.
C4_TargetsTerminalAtCompletion ==
    [][\A r \in 1..Len(runs) :
         Completes(r) =>
            \A i \in 1..Len(images') :
                images'[i].id \in TargetSet(runs[r])
                => images'[i].status \in Terminal]_vars

\* C4 as amended: in the step that completes a batch run, every target of the
\* run has status 'completed' or 'error', unless an attempt of another run (a
\* single-item run, or a second batch run) is in flight on it; none is pending.
C4_TargetsSettledAtCompletion ==
    [][\A r \in 1..Len(runs) :
         Completes(r) =>
            /\ runs[r].queue = <<>>
            /\ \A i \in 1..Len(images') :
                   images'[i].id \in TargetSet(runs[r])
                   => \/ images'[i].status \in Terminal
                      \/ /\ images'[i].status = "processing"
                         /\ InFlightIn(runs', singleFlight', images'[i].id) > 0]_vars

\* a batch run over three targets has completed and left all three terminal
C4_Witness ==
    /\ runs = <<>>
    /\ ~isProcessing
    /\ progress = [current |-> 3, total |-> 3]
    /\ Len(images) = 3
    /\ \A i \in 1..Len(images) : images[i].status \in Terminal

\* C5 as claimed: while a batch run with concurrency N over targets T is
\* running, at most min(N, |T|) tasks have status 'processing'.
C5_ProcessingBound ==
    \A r \in Running :
        ProcessingCount <= Min(runs[r].maxConcurrency, Len(runs[r].targets))

\* C5 as amended: while a batch run with concurrency N over targets T is
\* running, at most min(N, |T|) attempts dispatched by that run are in flight
\* (tasks a single-item run made 'processing' do not count against the pool).
C5_PoolBound ==
    \A r \in Running :
        /\ InFlightOf(runs[r]) <= Min(runs[r].maxConcurrency, Len(runs[r].targets))
        /\ Len(runs[r].workers) <= Min(runs[r].maxConcurrency, Len(runs[r].targets))

\* a run with concurrency 2 has two attempts in flight at the same time
C5_Witness ==
    \E r \in Running :
        /\ runs[r].maxConcurrency = 2
        /\ InFlightOf(runs[r]) = 2
        /\ ProcessingCount = 2

\* C6: every task a batch run hands to processOne is, in the shared collection
\* at that moment, selected and of status pending, error or completed.
C6_DispatchedAreTargets ==
    [][\A id \in Ids :
         BatchDispatched(id) =>
            \A i \in 1..Len(images) :
                images[i].id = id => IsTarget(images[i])]_vars

\* C7: a batch run hands every target to processOne exactly once: what it has
\* dispatched followed by what is still queued is the target list, which names
\* no task twice, and the run completes only when everything is dispatched.
C7_ExactlyOnce ==
    /\ [](\A r \in Running :
            /\ runs[r].dispatched \o runs[r].queue = runs[r].targets
            /\ \A j, k \in 1..Len(runs[r].targets) :
                   runs[r].targets[j] = runs[r].targets[k] => j = k)
    /\ [][\A r \in 1..Len(runs) :
            Completes(r) => runs[r].dispatched = runs[r].targets]_vars

\* two workers have dispatched all three targets of a run between them
C7_Witness ==
    \E r \in Running :
        /\ Len(runs[r].workers) = 2
        /\ Len(runs[r].targets) = 3
        /\ runs[r].dispatched = runs[r].targets
        /\ runs[r].queue = <<>>

\* C8: no task ever has two processOne invocations in flight at the same time.
C8_OneAttemptPerTask == \A id \in Ids : InFlight(id) <= 1

\* C9: processOne never rejects: no worker ever ends rejected (so it goes on
\* to the next queue item and the pool can join), and a task in status 'error'
\* carries a non-empty message.
C9_NoFailureEscapes ==
    /\ \A r \in Running :
           \A w \in 1..Len(runs[r].workers) : runs[r].workers[w] >= 0
    /\ \A i \in 1..Len(images) :
           images[i].status = "error" => images[i].error \notin {NoValue, <<>>}

\* the first target of a worker failed, and the same worker is processing the
\* next one
C9_Witness ==
    \E r \in Running :
        /\ Len(runs[r].workers) = 1
        /\ Len(runs[r].dispatched) = 2
        /\ runs[r].workers[1] = runs[r].dispatched[2]
        /\ \E i \in 1..Len(images) :
               /\ images[i].id = runs[r].dispatched[1]
               /\ images[i].status = "error"
               /\ images[i].error = DEFAULT_MESSAGE

\* C10: the busy flag is set whenever a batch run has targets queued or in
\* flight: it is set before the first dispatch and cleared only after the
\* run's last worker has returned.
C10_BusyWhileRunning == \A r \in Running : isProcessing

\* in this step processOne is entered for task id, or an attempt on it settles
Enters(id) == InFlightIn(runs', singleFlight', id) > InFlight(id)
Settles(id) ==
    /\ progress'.current = progress.current + 1
    /\ InFlightIn(runs', singleFlight', id) = InFlight(id) - 1

\* C11: a step in which processOne is entered or settles (a task goes to
\* processing, completed or error) changes the 'selected' flag of no task.
C11_SelectionUnchanged ==
    [][(\E id \in Ids : Enters(id) \/ Settles(id)) =>
          /\ Len(images') = Len(images)
          /\ \A i \in 1..Len(images) :
                 /\ images'[i].id = images[i].id
                 /\ images'[i].selected = images[i].selected]_vars

\* an unselected task is being processed by a single-item run while a batch
\* run processes a selected one
C11_Witness ==
    \E i, j \in 1..Len(images) :
        /\ ~images[i].selected
        /\ images[i].status = "processing"
        /\ singleFlight[images[i].id] = 1
        /\ images[j].selected
        /\ images[j].status = "processing"
        /\ \E r \in Running : runs[r].workers[1] = images[j].id

\* C12: a completed or error task that is dispatched again goes back to
\* processing, and when an attempt on a task that already had a result
\* succeeds, the task has a result and no error.
C12_RerunOverwrites ==
    [][\A i \in 1..Len(images) :
          /\ (images[i].status \in Terminal /\ Enters(images[i].id))
                 => images'[i].status = "processing"
          /\ (/\ Settles(images[i].id)
              /\ images[i].editedUrl # NoValue
              /\ images'[i].status = "completed")
                 => /\ images'[i].editedUrl # NoValue
                    /\ images'[i].error = NoValue]_vars

\* the prompt is empty or consists of whitespace only
Blank(prompt) == \A k \in 1..Len(prompt) : prompt[k] \in {" ", "\t", "\n"}

\* C13: a start (batch or single-item) with a blank prompt, and a batch start
\* whose filter finds no target, changes no task, dispatches nothing, does not
\* set the busy flag and leaves progress as it was.
C13_RejectedStartIsInert ==
    [][(\/ Blank(config.prompt) /\ (startWorkflow \/ startSingleWorkflow)
        \/ TargetsOf(images) = <<>> /\ startWorkflow)
          => UNCHANGED <<images, isProcessing, activeCount, progress,
                         runs, singleCheck, singleFlight>>]_vars

\* the prompt is whitespace only while two selected pending tasks wait and
\* both start buttons are enabled
C13_Witness ==
    /\ config.prompt = <<" ", "\n">>
    /\ Len(images) = 2
    /\ \A i \in 1..Len(images) :
           images[i].selected /\ images[i].status = "pending"
    /\ ~isProcessing
    /\ runs = <<>>
    /\ Outstanding = 0

RunningIn(rs) == {r \in 1..Len(rs) : rs[r].pc = "running"}

\* C14: a step taken while the busy flag is set starts no batch run, does not
\* clear the task collection and begins no export.
C14_BusyGates ==
    [][isProcessing =>
          /\ Cardinality(RunningIn(runs')) <= Cardinality(RunningIn(runs))
          /\ (images' = <<>> => images = <<>>)
          /\ (isExporting' => isExporting)]_vars

\* the followed invocation ends in this step, and processOne settles its task
Finishes == invocation'.pc = "done" /\ Settles(invocation'.id)

\* the task of the followed invocation, after the step
TaskAfter ==
    images'[CHOOSE i \in 1..Len(images') : images'[i].id = invocation'.id]

\* a text is missing: undefined or empty
Missing(text) == text = NoValue \/ text = <<>>

\* the configuration the adapter needs is incomplete
Misconfigured(cfg, apiKey) ==
    IF cfg.provider = "gemini" THEN Missing(apiKey)
    ELSE Missing(cfg.customUrl) \/ Missing(cfg.customApiKey)
         \/ Missing(cfg.customModel)

\* C15: an invocation of the native adapter without an ambient API key, or of
\* the custom adapter with its URL, key or model missing, never issues a
\* request, and it ends with the task in status 'error'.
C15_ConfigErrorsFailFast ==
    /\ []((invocation.pc # "idle" /\ invocation.called
           /\ Misconfigured(config, invocation.apiKey))
             => invocation.requests = <<>>)
    /\ [][(Finishes /\ invocation'.called
           /\ Misconfigured(config, invocation'.apiKey))
             => /\ invocation.pc # "awaiting"
                /\ TaskAfter.status = "error"
                /\ ~Missing(TaskAfter.error)]_vars

\* the custom adapter was called with its key missing: no request, task in error
C15_Witness ==
    /\ invocation.pc = "done"
    /\ invocation.called
    /\ config.provider = "custom"
    /\ config.customUrl # <<>>
    /\ config.customApiKey = <<>>
    /\ config.customModel # <<>>
    /\ invocation.requests = <<>>
    /\ images[1].status = "error"
    /\ images[1].error = INCOMPLETE_CONFIG_MESSAGE

\* C16: an invocation never has more than one outbound request, whatever the
\* response; with a complete configuration it has exactly one from the moment
\* the adapter awaits the response.
C16_OneCallNoRetry ==
    invocation.pc # "idle" =>
        /\ Len(invocation.requests) <= 1
        /\ invocation.pc = "awaiting" => Len(invocation.requests) = 1
        /\ (invocation.pc = "done" /\ invocation.called
            /\ ~Misconfigured(config, invocation.apiKey))
              => Len(invocation.requests) = 1

\* the call failed in transport and the invocation ended with its one request
C16_Witness ==
    /\ invocation.pc = "done"
    /\ invocation.response.kind = "throws"
    /\ ~invocation.result.ok
    /\ Len(invocation.requests) = 1

\* the parts of a response that carry inline image data, and those with text
ImageParts(parts) == {k \in 1..Len(parts) : "inlineData" \in DOMAIN parts[k]}
TextParts(parts) == {k \in 1..Len(parts) : "text" \in DOMAIN parts[k]}

\* C17: for every list of response parts of the native backend: with an image
\* part, the result is the data URI of the first one (mime image/png when the
\* part has none); without one but with a text part, the call fails with the
\* text-only error carrying that text; with neither, it fails with the
\* no-image-data error.
C17_ResponseClassification ==
    (invocation.pc = "done" /\ config.provider = "gemini"
     /\ invocation.response.kind = "parts")
      => LET parts == invocation.response.parts
             result == invocation.result
         IN IF ImageParts(parts) # {}
            THEN LET first == CHOOSE k \in ImageParts(parts) :
                                  \A j \in ImageParts(parts) : k <= j
                     mime == IF parts[first].inlineData.mimeType = NoValue
                             THEN <<"image/png">>
                             ELSE parts[first].inlineData.mimeType
                 IN /\ result.ok
                    /\ result.value = <<"data:">> \o mime \o <<";base64,">>
                                          \o parts[first].inlineData.data
            ELSE IF TextParts(parts) # {}
            THEN /\ ~result.ok
                 /\ \E k \in TextParts(parts) :
                        result.value = TEXT_ONLY_PREFIX \o parts[k].text
            ELSE /\ ~result.ok
                 /\ result.value = NO_IMAGE_MESSAGE

\* the backend of the native adapter refused the call for lack of permission
PermissionFailure(cfg, response) ==
    /\ cfg.provider = "gemini"
    /\ response.kind = "throws"
    /\ \/ Includes(response.message, <<"403">>)
       \/ Includes(response.message, <<"PERMISSION_DENIED">>)

\* the message of the error as it was first raised in the invocation
OriginalMessage(cfg, inv) ==
    IF inv.response.kind = "none" THEN inv.result.value
    ELSE IF inv.response.kind = "throws" THEN inv.response.message
    ELSE IF cfg.provider = "gemini" THEN ScanParts(inv.response.parts).value
    ELSE ReadCustomResponse(inv.response).value

\* C18: when an invocation fails, the task gets the remediation message if the
\* native backend refused the call for lack of permission, and in every other
\* case the original message of the error (the default one when it has none).
C18_OnlyPermissionIsNormalized ==
    [][(Finishes /\ ~invocation'.result.ok) =>
          TaskAfter.error =
              IF PermissionFailure(config, invocation'.response)
              THEN REMEDIATION_MESSAGE
              ELSE IF Missing(OriginalMessage(config, invocation'))
              THEN DEFAULT_MESSAGE
              ELSE OriginalMessage(config, invocation')]_vars

\* the request carries the image-shape configuration / the resolution
HasImageConfig(request) == "config" \in DOMAIN request
HasImageSize(request) ==
    /\ HasImageConfig(request)
    /\ "imageSize" \in DOMAIN request.config.imageConfig

\* C19: a request of the native adapter carries imageSize if and only if the
\* model is the Pro model (and then the configured size), and it carries the
\* image-shape configuration only when the model name contains 'image'.
C19_ResolutionOnlyForPro ==
    (invocation.pc # "idle" /\ config.provider = "gemini") =>
        \A k \in 1..Len(invocation.requests) :
            LET request == invocation.requests[k]
            IN /\ HasImageSize(request) <=> config.model = PRO_MODEL
               /\ HasImageSize(request) =>
                      request.config.imageConfig.imageSize = config.imageSize
               /\ HasImageConfig(request) => Includes(config.model, <<"image">>)

\* the Flash model with size 2K configured: the request has the image-shape
\* configuration without a resolution
C19_Witness ==
    /\ invocation.pc = "awaiting"
    /\ config.provider = "gemini"
    /\ config.model = FLASH_MODEL
    /\ config.imageSize = <<"2K">>
    /\ Len(invocation.requests) = 1
    /\ HasImageConfig(invocation.requests[1])
    /\ ~HasImageSize(invocation.requests[1])

\* the message in the JSON body of an error response, NoValue without one
BodyMessage(response) ==
    IF response.parseable /\ "error" \in DOMAIN response.body
       /\ "message" \in DOMAIN response.body.error
    THEN response.body.error.message
    ELSE NoValue

\* C20: when the custom adapter gets a non-2xx response, the task ends in
\* status 'error' with exactly the error.message of the JSON body, and with the
\* generic text that names status and statusText when the body does not parse
\* or has no message.
C20_ServerMessageReachesTask ==
    [][(Finishes /\ config.provider = "custom"
        /\ invocation'.response.kind = "http" /\ ~invocation'.response.ok)
          => /\ TaskAfter.status = "error"
             /\ IF Missing(BodyMessage(invocation'.response))
                THEN Includes(TaskAfter.error,
                              invocation'.response.status
                                  \o invocation'.response.statusText)
                ELSE TaskAfter.error = BodyMessage(invocation'.response)]_vars

\* C21: when the call of an invocation fails in transport with the message
\* 'Failed to fetch', under either provider, the task's error is the
\* unreachable / CORS guidance text and not the raw message.
C21_UnreachableGuidance ==
    [][(Finishes /\ invocation'.response.kind = "throws"
        /\ invocation'.response.message = FAILED_TO_FETCH)
          => /\ TaskAfter.status = "error"
             /\ TaskAfter.error = NETWORK_MESSAGE]_vars

\* C22: a batch run over L targets with concurrency N has exactly min(N, L)
\* workers, and when it starts (no call has settled yet) min(N, L) of its
\* targets are being processed.
C22_SpawnsMinWorkers ==
    \A r \in Running :
        /\ Len(runs[r].workers) =
               Min(runs[r].maxConcurrency, Len(runs[r].targets))
        /\ progress.current = 0 /\ Outstanding = 0
             => InFlightOf(runs[r]) =
                    Min(runs[r].maxConcurrency, Len(runs[r].targets))

\* the status changes of the task state machine
Transitions ==
    { <<"pending", "processing">>, <<"processing", "completed">>,
      <<"processing", "error">>, <<"completed", "processing">>,
      <<"error", "processing">> }

\* C23: in every step, a task that stays in the collection keeps its status or
\* changes it along the state machine: pending -> processing -> completed |
\* error, and completed | error -> processing.
C23_StatusStateMachine ==
    [][\A i \in 1..Len(images) :
          (i <= Len(images') /\ images'[i].id = images[i].id
           /\ images'[i].status # images[i].status)
            => <<images[i].status, images'[i].status>> \in Transitions]_vars

\* targets of the run whose attempt has settled
SettledOf(run) == Len(run.dispatched) - InFlightOf(run)

\* C24: while a batch run is running, progress.current is the number of the
\* run's targets that have reached a terminal state: it is ticked once per
\* terminal transition and changed by nothing else.
C24_ProgressCountsSettled ==
    \A r \in Running : progress.current = SettledOf(runs[r])

\* C25: a step in which processOne is entered or settles changes only the
\* tasks with the ids concerned: every other task (status, editedUrl, error and
\* the rest) is exactly as the latest update to it left it, and no task is
\* added or dropped.
C25_UpdatesAreIsolated ==
    [][(\E id \in Ids : Enters(id) \/ Settles(id)) =>
          /\ Len(images') = Len(images)
          /\ \A i \in 1..Len(images) :
                 (~Enters(images[i].id) /\ ~Settles(images[i].id))
                   => images'[i] = images[i]]_vars

\* two workers of one run have left one task completed and one failed while a
\* third attempt is still in flight: three updates to three tasks all stand
C25_Witness ==
    \E r \in Running :
        /\ Len(runs[r].workers) = 2
        /\ InFlightOf(runs[r]) = 1
        /\ \E i, j, k \in 1..Len(images) :
               /\ images[i].status = "completed" /\ images[i].editedUrl # NoValue
               /\ images[j].status = "error" /\ images[j].error # NoValue
               /\ images[k].status = "processing"
               /\ {images[i].id, images[j].id, images[k].id} \subseteq TargetSet(runs[r])

\* task id is a target of a running batch run that the run has not settled yet
Unsettled(id) ==
    \E r \in Running :
        \/ \E k \in 1..Len(runs[r].queue) : runs[r].queue[k] = id
        \/ \E w \in 1..Len(runs[r].workers) : runs[r].workers[w] = id

StatusOf(id) ==
    IF \E i \in 1..Len(images) : images[i].id = id
    THEN (CHOOSE img \in {images[i] : i \in 1..Len(images)} : img.id = id).status
    ELSE "absent"

\* C26: when every attempt eventually settles, every started batch run
\* eventually completes: each target still queued or in flight eventually is
\* settled by the run and terminal, the queue becomes empty, and the busy flag
\* is eventually cleared with the run gone.
C26_RunsComplete ==
    /\ \A id \in Ids :
           Unsettled(id) ~> (~Unsettled(id) /\ StatusOf(id) \in Terminal)
    /\ (Running # {}) ~> (runs = <<>> /\ ~isProcessing)

\* a batch run over two targets has completed with one result and one failure
C26_Witness ==
    /\ runs = <<>>
    /\ ~isProcessing
    /\ progress = [current |-> 2, total |-> 2]
    /\ Len(images) = 2
    /\ images[1].status = "error"
    /\ images[2].status = "completed"
    /\ activeCount = 0

\* task id is a target, other than the first, of a running batch run with
\* concurrency 2 or more over 2 or more targets, and the run has not settled it
UnsettledBesideHung(id) ==
    \E r \in Running :
        /\ runs[r].maxConcurrency >= 2
        /\ Len(runs[r].targets) >= 2
        /\ id # runs[r].targets[1]
        /\ \/ \E k \in 1..Len(runs[r].queue) : runs[r].queue[k] = id
           \/ \E w \in 1..Len(runs[r].workers) : runs[r].workers[w] = id

\* C27: when one adapter call of a batch run with concurrency N >= 2 over at
\* least 2 targets never settles and all others do, every other target of the
\* run eventually is settled and terminal (the remaining workers drain the
\* queue), and the run never completes.
C27_OthersDrainAroundHang ==
    /\ \A id \in Ids :
           UnsettledBesideHung(id)
             ~> (~Unsettled(id) /\ StatusOf(id) \in Terminal)
    /\ [][\A r \in 1..Len(runs) : ~Completes(r)]_vars

\* the position of task id in the collection (0 when it is not there)
PositionOf(id) ==
    IF \E i \in 1..Len(images) : images[i].id = id
    THEN CHOOSE i \in 1..Len(images) : images[i].id = id
    ELSE 0

DispatchedSet(run) == {run.dispatched[k] : k \in 1..Len(run.dispatched)}

\* C28 as claimed: for two targets a before b of a running batch run, a enters
\* 'processing' no later than b: b is not processing while a is still pending.
C28_ProcessingInTargetOrder ==
    \A r \in Running :
        \A j, k \in 1..Len(runs[r].targets) :
            (j < k /\ StatusOf(runs[r].targets[k]) = "processing")
              => StatusOf(runs[r].targets[j]) # "pending"

\* C28 as amended: the target list of a running batch run is in the order of
\* the task collection, and for two targets a before b the run hands a to
\* processOne no later than b (whenever b has been dispatched, so has a), for
\* every concurrency and completion order.
C28_DispatchInTargetOrder ==
    \A r \in Running :
        \A j, k \in 1..Len(runs[r].targets) :
            j < k =>
              /\ PositionOf(runs[r].targets[j]) < PositionOf(runs[r].targets[k])
              /\ runs[r].targets[k] \in DispatchedSet(runs[r])
                   => runs[r].targets[j] \in DispatchedSet(runs[r])

\* the second target has settled before the first: the worker that finished
\* it took the third while the first is still in flight
C28_Witness ==
    \E r \in Running :
        /\ Len(runs[r].targets) = 3
        /\ runs[r].workers = <<runs[r].targets[1], runs[r].targets[3]>>
        /\ StatusOf(runs[r].targets[1]) = "processing"
        /\ StatusOf(runs[r].targets[2]) \in Terminal
        /\ StatusOf(runs[r].targets[3]) = "processing"

\* processOne invocations in flight: the attempts of single-item runs and of
\* the workers of the running batch runs
AttemptsInFlight ==
    Sum(singleFlight, Ids)
    + Cardinality({rw \in (1..Len(runs)) \X (1..MaxImages) :
          /\ runs[rw[1]].pc = "running"
          /\ rw[2] <= Len(runs[rw[1]].workers)
          /\ runs[rw[1]].workers[rw[2]] > 0})

\* C29: in every reachable state activeCount is non-negative and equals the
\* number of processOne invocations in flight.
C29_ActiveCountIsInFlight ==
    /\ activeCount >= 0
    /\ activeCount = AttemptsInFlight

\* C30: in every reachable state 0 <= progress.current <= progress.total.
C30_ProgressWithinTotal ==
    /\ 0 <= progress.current
    /\ progress.current <= progress.total

\* C31: at most one batch run is running at any time, and no two running batch
\* runs have a target in common (a second start fired before the busy flag is
\* set does not yield two worker pools over overlapping target lists).
C31_OneActiveRun ==
    /\ Cardinality(Running) <= 1
    /\ \A r, q \in Running :
           r # q => TargetSet(runs[r]) \cap TargetSet(runs[q]) = {}

\* ----------------------------------------------------------------- specs
\* The default configuration (the Flash model): the credential check never
\* suspends, so a start button acts within the task of its click.
Next ==
    \/ handleFolderUpload(MaxImages)
    \/ toggleSelect
    \/ selectAll
    \/ setConcurrency
    \/ clearAll
    \/ startSingleWorkflow
    \/ singleSettle(Outcomes)
    \/ startWorkflow
    \/ batchSettle(Outcomes)

Spec == Init /\ [][Next]_vars

\* every adapter call and image decode eventually settles: an attempt in
\* flight stays in flight until it settles, so its settling is weakly fair
NextSettling ==
    \/ handleFolderUpload(MaxImages)
    \/ setConcurrency
    \/ clearAll
    \/ startSingleWorkflow
    \/ singleSettle(Outcomes)
    \/ startWorkflow
    \/ batchSettle(Outcomes)

SpecSettling ==
    /\ Init
    /\ [][NextSettling]_vars
    /\ WF_vars(batchSettle(Outcomes))
    /\ WF_vars(singleSettle(Outcomes))

\* One adapter call of a batch run never settles: the attempt on the run's
\* first target stays in flight for ever, every other attempt settles.
batchSettleOthers ==
    /\ batchSettle(Outcomes)
    /\ \A r \in Running : ~Settles(runs[r].targets[1])

NextHang ==
    \/ handleFolderUpload(MaxImages)
    \/ toggleSelect
    \/ setConcurrency
    \/ startWorkflow
    \/ batchSettleOthers

SpecHang ==
    /\ Init
    /\ [][NextHang]_vars
    /\ WF_vars(batchSettleOthers)

\* The Pro model: the credential check suspends on the host's key dialog, and
\* other tasks run before startWorkflow and startSingleWorkflow go on.
InitKeyDialog ==
    /\ images = <<>>
    /\ config = [prompt |-> <<"e">>, provider |-> "gemini",
                 model |-> PRO_MODEL, imageSize |-> <<"1K">>,
                 customUrl |-> DEFAULT_CUSTOM_URL, customApiKey |-> <<>>,
                 customModel |-> DEFAULT_CUSTOM_MODEL, concurrency |-> 1]
    /\ isProcessing = FALSE
    /\ activeCount = 0
    /\ progress = [current |-> 0, total |-> 0]
    /\ created = 0
    /\ runs = <<>>
    /\ singleCheck = [id \in Ids |-> 0]
    /\ singleFlight = [id \in Ids |-> 0]
    /\ isExporting = FALSE
    /\ invocation = NoInvocation

NextKeyDialog ==
    \/ handleFolderUpload(MaxImagesKeyDialog)
    \/ toggleSelect
    \/ selectAll
    \/ clearAll
    \/ startSingleWorkflow
    \/ singleCheckDone
    \/ singleSettle(Outcomes)
    \/ startWorkflow
    \/ batchCheckDone
    \/ batchSettle(Outcomes)
    \/ downloadAllAsZip
    \/ exportSettle

SpecKeyDialog == InitKeyDialog /\ [][NextKeyDialog]_vars

\* The default configuration with the prompt box in use.
NextPrompt ==
    \/ handleFolderUpload(MaxImagesPrompt)
    \/ toggleSelect
    \/ selectAll
    \/ setPrompt
    \/ clearAll
    \/ startSingleWorkflow
    \/ singleSettle(Outcomes)
    \/ startWorkflow
    \/ batchSettle(Outcomes)

SpecPrompt == Init /\ [][NextPrompt]_vars

\* One image and one editImage invocation at a time, followed from the image
\* decoding to the settled task, for every configuration of the two adapters.
InitAdapter ==
    /\ images = <<NewImage(1)>>
    /\ config \in AdapterConfigs
    /\ isProcessing = FALSE
    /\ activeCount = 0
    /\ progress = [current |-> 0, total |-> 0]
    /\ created = 1
    /\ runs = <<>>
    /\ singleCheck = [id \in Ids |-> 0]
    /\ singleFlight = [id \in Ids |-> 0]
    /\ isExporting = FALSE
    /\ invocation = NoInvocation

NextAdapter ==
    \/ startSingleWorkflow
    \/ singleCheckDone
    \/ editImageCall
    \/ editImageReturn

SpecAdapter == InitAdapter /\ [][NextAdapter]_vars
====
